---- MODULE Spec2Model ----
(***************************************************************************)
(* A model of squeezestats.py: analyze_music_logs reads the <song>         *)
(* elements of the XML play logs, keeps the ones with a valid duration and *)
(* date, removes parallel plays, sorts by time and computes the            *)
(* statistics and the listening sessions.                                  *)
(*                                                                         *)
(* Text is written as a sequence of one-character strings, so that         *)
(* splitting, counting and converting are computed as the code computes    *)
(* them.  findtext gives None for a missing element and "" for an empty    *)
(* one; the code only ever tests such a value for truth, so both are       *)
(* written as the empty sequence.  A value that may be None and is not     *)
(* text (a parsed duration, a parsed date, top_count) is <<>> for None and *)
(* <<v>> for v.                                                            *)
(***************************************************************************)
EXTENDS Integers, Sequences, FiniteSets, TLC

----------------------------------------------------------------------------
(* Text helpers *)

None == <<>>

Some(v) == <<v>>

IsNone(o) == o = <<>>

Val(o) == o[1]

\* Python truth of a text value: None and "" are false.
Truthy(s) == Len(s) > 0

Digits == {"0", "1", "2", "3", "4", "5", "6", "7", "8", "9"}

DigitVal(c) ==
    CASE c = "0" -> 0 [] c = "1" -> 1 [] c = "2" -> 2 [] c = "3" -> 3
      [] c = "4" -> 4 [] c = "5" -> 5 [] c = "6" -> 6 [] c = "7" -> 7
      [] c = "8" -> 8 [] c = "9" -> 9

\* str.count(c)
Count(s, c) == Cardinality({i \in 1..Len(s) : s[i] = c})

\* str.split(c): the pieces between the occurrences of c, empty pieces kept.
RECURSIVE Split(_, _)
Split(s, c) ==
    IF \A i \in 1..Len(s) : s[i] # c
    THEN <<s>>
    ELSE LET k == CHOOSE i \in 1..Len(s) :
                      s[i] = c /\ \A j \in 1..(i - 1) : s[j] # c
         IN  <<SubSeq(s, 1, k - 1)>> \o Split(SubSeq(s, k + 1, Len(s)), c)

\* The value of a non-empty run of decimal digits.
RECURSIVE DecimalValue(_)
DecimalValue(ds) ==
    IF Len(ds) = 0 THEN 0
    ELSE 10 * DecimalValue(SubSeq(ds, 1, Len(ds) - 1)) + DigitVal(ds[Len(ds)])

AllDigits(s) == Len(s) > 0 /\ \A i \in 1..Len(s) : s[i] \in Digits

\* str.strip() for blanks.
RECURSIVE Strip(_)
Strip(s) ==
    IF Len(s) > 0 /\ s[1] = " " THEN Strip(Tail(s))
    ELSE IF Len(s) > 0 /\ s[Len(s)] = " " THEN Strip(SubSeq(s, 1, Len(s) - 1))
    ELSE s

\* int(text): surrounding blanks are dropped, one sign is allowed, then at
\* least one digit.  None stands for ValueError.
PyInt(text) ==
    LET t == Strip(text)
        signed == Len(t) > 0 /\ t[1] \in {"-", "+"}
        body == IF signed THEN Tail(t) ELSE t
    IN  IF ~AllDigits(body) THEN None
        ELSE IF signed /\ t[1] = "-" THEN Some(0 - DecimalValue(body))
        ELSE Some(DecimalValue(body))

----------------------------------------------------------------------------
(* parse_duration *)

\* The try block: the colons decide the format, int() converts the pieces.
\* None stands for the else branch and for ValueError.
DurationSeconds(duration_str) ==
    LET parts == Split(duration_str, ":")
        ints == [i \in 1..Len(parts) |-> PyInt(parts[i])]
        bad == \E i \in 1..Len(ints) : IsNone(ints[i])
    IN  IF Count(duration_str, ":") = 1
        THEN IF bad THEN None
             ELSE Some(Val(ints[1]) * 60 + Val(ints[2]))
        ELSE IF Count(duration_str, ":") = 2
        THEN IF bad THEN None
             ELSE Some(Val(ints[1]) * 3600 + Val(ints[2]) * 60 + Val(ints[3]))
        ELSE None

\* A parse_duration that reads a string without a colon as a number of seconds.
ParseDurationKeepingPlainNumbers(duration_str) ==
    IF ~Truthy(duration_str) \/ duration_str = <<"0">> THEN None
    ELSE IF Count(duration_str, ":") = 0 THEN PyInt(duration_str)
    ELSE DurationSeconds(duration_str)

parse_duration(duration_str) ==
    IF ~Truthy(duration_str) \/ duration_str = <<"0">> THEN None
    ELSE DurationSeconds(duration_str)

----------------------------------------------------------------------------
(* datetime.strptime(text, "%Y/%m/%d %H:%M:%S") *)

IsLeap(y) == (y % 4 = 0) /\ ((y % 100 # 0) \/ (y % 400 = 0))

DaysInMonth(y, m) ==
    IF m = 2 THEN (IF IsLeap(y) THEN 29 ELSE 28)
    ELSE IF m \in {4, 6, 9, 11} THEN 30 ELSE 31

\* A field of the format: one or two digits (four for %Y).
Field(s, lo, hi, minLen, maxLen) ==
    IF AllDigits(s) /\ Len(s) >= minLen /\ Len(s) <= maxLen
       /\ DecimalValue(s) >= lo /\ DecimalValue(s) <= hi
    THEN Some(DecimalValue(s))
    ELSE None

\* The text is year/month/day, blanks, hour:minute:second; the day may be
\* one digit after one blank.  Of the white space the format takes between
\* day and hour only blanks are written.  None stands for ValueError
\* (TypeError when the date element is missing).
strptime(text) ==
    LET slashed == Split(text, "/")
    IN  IF Len(slashed) # 3 THEN None
        ELSE LET pieces == Split(slashed[3], " ")
                 padded == Len(pieces) > 1 /\ pieces[1] = <<>>
                 rest == IF padded THEN Tail(pieces) ELSE pieces
                 t == Split(rest[Len(rest)], ":")
             IN  IF \/ Len(rest) < 2
                    \/ \E i \in 2..(Len(rest) - 1) : rest[i] # <<>>
                    \/ Len(t) # 3
                 THEN None
                 ELSE LET Y == Field(slashed[1], 1, 9999, 4, 4)
                          mo == Field(slashed[2], 1, 12, 1, 2)
                          dd == IF padded THEN Field(rest[1], 1, 9, 1, 1)
                                ELSE Field(rest[1], 1, 31, 1, 2)
                          H == Field(t[1], 0, 23, 1, 2)
                          M == Field(t[2], 0, 59, 1, 2)
                          S == Field(t[3], 0, 59, 1, 2)
                      IN  IF \E f \in {Y, mo, dd, H, M, S} : IsNone(f) THEN None
                          ELSE IF Val(dd) > DaysInMonth(Val(Y), Val(mo)) THEN None
                          ELSE Some([year |-> Val(Y), month |-> Val(mo),
                                     day |-> Val(dd), hour |-> Val(H),
                                     minute |-> Val(M), second |-> Val(S)])

\* date.toordinal(): the day number, 1 for 0001-01-01.
RECURSIVE DaysBeforeMonth(_, _)
DaysBeforeMonth(y, m) ==
    IF m = 1 THEN 0 ELSE DaysBeforeMonth(y, m - 1) + DaysInMonth(y, m - 1)

ToOrdinal(dt) ==
    LET y1 == dt.year - 1
    IN  y1 * 365 + (y1 \div 4) - (y1 \div 100) + (y1 \div 400)
        + DaysBeforeMonth(dt.year, dt.month) + dt.day

SecondOfDay(dt) == dt.hour * 3600 + dt.minute * 60 + dt.second

\* (a - b).total_seconds()
SecondsBetween(a, b) ==
    (ToOrdinal(a) - ToOrdinal(b)) * 86400 + SecondOfDay(a) - SecondOfDay(b)

\* a < b on datetimes
Earlier(a, b) ==
    \/ ToOrdinal(a) < ToOrdinal(b)
    \/ ToOrdinal(a) = ToOrdinal(b) /\ SecondOfDay(a) < SecondOfDay(b)

----------------------------------------------------------------------------
(* str() and str.lower(), as the search filter uses them *)

Lower(c) ==
    CASE c = "A" -> "a" [] c = "B" -> "b" [] c = "C" -> "c" [] c = "P" -> "p"
      [] c = "Q" -> "q" [] c = "R" -> "r" [] c = "X" -> "x" [] c = "Y" -> "y"
      [] OTHER -> c

LowerText(s) == [i \in 1..Len(s) |-> Lower(s[i])]

\* needle in hay
Contains(hay, needle) ==
    \E i \in 1..(Len(hay) - Len(needle) + 1) :
        SubSeq(hay, i, i + Len(needle) - 1) = needle

DigitChar(d) ==
    CASE d = 0 -> "0" [] d = 1 -> "1" [] d = 2 -> "2" [] d = 3 -> "3"
      [] d = 4 -> "4" [] d = 5 -> "5" [] d = 6 -> "6" [] d = 7 -> "7"
      [] d = 8 -> "8" [] d = 9 -> "9"

RECURSIVE NatText(_)
NatText(n) == IF n < 10 THEN <<DigitChar(n)>>
              ELSE NatText(n \div 10) \o <<DigitChar(n % 10)>>

\* str(n)
IntText(n) == IF n < 0 THEN <<"-">> \o NatText(0 - n) ELSE NatText(n)

\* n written with at least w digits
RECURSIVE Padded(_, _)
Padded(n, w) == IF Len(NatText(n)) >= w THEN NatText(n)
                ELSE <<"0">> \o Padded(n, w - 1)

\* str(datetime): YYYY-MM-DD HH:MM:SS
DatetimeText(dt) ==
    Padded(dt.year, 4) \o <<"-">> \o Padded(dt.month, 2) \o <<"-">>
    \o Padded(dt.day, 2) \o <<" ">> \o Padded(dt.hour, 2) \o <<":">>
    \o Padded(dt.minute, 2) \o <<":">> \o Padded(dt.second, 2)

----------------------------------------------------------------------------
(* parse_year_filter: None, or the set of the years that pass *)

\* A range that leaves its last year out.
ParseYearFilterWithoutLastYear(year_filter) ==
    IF ~Truthy(year_filter) THEN None
    ELSE IF Count(year_filter, "-") > 0
    THEN LET parts == Split(year_filter, "-")
         IN  IF Len(parts) # 2 \/ IsNone(PyInt(parts[1])) \/ IsNone(PyInt(parts[2]))
             THEN None
             ELSE Some(Val(PyInt(parts[1])) .. (Val(PyInt(parts[2])) - 1))
    ELSE IF IsNone(PyInt(year_filter)) THEN None
    ELSE Some({Val(PyInt(year_filter))})

parse_year_filter(year_filter) ==
    IF ~Truthy(year_filter) THEN None
    ELSE IF Count(year_filter, "-") > 0
    THEN LET parts == Split(year_filter, "-")
         IN  IF Len(parts) # 2 \/ IsNone(PyInt(parts[1])) \/ IsNone(PyInt(parts[2]))
             THEN None
             ELSE Some(Val(PyInt(parts[1])) .. Val(PyInt(parts[2])))
    ELSE IF IsNone(PyInt(year_filter)) THEN None
    ELSE Some({Val(PyInt(year_filter))})

----------------------------------------------------------------------------
(* The song elements of a log file, and the songs made from them *)

\* A <song> element: the text of its children.  The children the model does
\* not write (stitle, playerId, path, comment, time, guid) are absent.
Element(artist, album, title, date, duration, player_name) ==
    [artist |-> artist, album |-> album, title |-> title, date |-> date,
     duration |-> duration, player_name |-> player_name]

\* extract_file_format of an absent path
UnknownFormat == <<"u", "n", "k", "n", "o", "w", "n">>

\* The song dictionary of an element with a valid duration and date.  id is
\* the element's place among the elements read: it stands for the identity
\* of the dictionary object.
MakeSong(e, id, parsed_duration, song_date) ==
    [artist |-> e.artist, album |-> e.album, title |-> e.title,
     date |-> e.date, duration |-> parsed_duration,
     player_name |-> e.player_name, file_format |-> UnknownFormat,
     datetime |-> song_date, id |-> id]

\* str(song[key]) for the keys whose value is true
SearchedTexts(song) ==
    {t \in {song.artist, song.album, song.title, song.date,
            song.player_name, song.file_format} : Truthy(t)}
    \cup (IF song.duration # 0 THEN {IntText(song.duration)} ELSE {})
    \cup {DatetimeText(song.datetime)}

SearchMatches(song, pattern) ==
    \/ IsNone(pattern)
    \/ \E t \in SearchedTexts(song) :
           Contains(LowerText(t), LowerText(Val(pattern)))

\* parallel_plays is a dictionary in insertion order: a sequence of
\* [key, group], key = <<title, date>>, group the list of its songs.
HasKey(pp, key) == \E i \in 1..Len(pp) : pp[i].key = key

GroupOf(pp, key) ==
    IF HasKey(pp, key)
    THEN pp[CHOOSE i \in 1..Len(pp) : pp[i].key = key].group
    ELSE <<>>

AppendToGroup(pp, key, song) ==
    IF HasKey(pp, key)
    THEN [i \in 1..Len(pp) |->
             IF pp[i].key = key
             THEN [key |-> key, group |-> Append(pp[i].group, song)]
             ELSE pp[i]]
    ELSE Append(pp, [key |-> key, group |-> <<song>>])

ParallelKey(song) == <<song.title, song.date>>

\* Whether the song is given a parallel key (line 150).
Keyed(song) == Truthy(song.title) /\ Truthy(song.date)

\* The body of the loop over the song elements, for one element: st holds
\* songs, parallel_plays and discarded_count.
ReadElement(st, e, id, years, pattern) ==
    LET parsed_duration == parse_duration(e.duration)
        discard == [st EXCEPT !.discarded_count = @ + 1]
    IN  IF IsNone(parsed_duration) THEN discard
        ELSE LET song_date == strptime(e.date)
             IN  IF IsNone(song_date) THEN discard
                 ELSE LET song == MakeSong(e, id, Val(parsed_duration), Val(song_date))
                          year_match == IsNone(years) \/ song.datetime.year \in Val(years)
                      IN  IF year_match /\ SearchMatches(song, pattern)
                          THEN [st EXCEPT
                                  !.songs = Append(@, song),
                                  !.parallel_plays =
                                      IF Keyed(song)
                                      THEN AppendToGroup(@, ParallelKey(song), song)
                                      ELSE @]
                          ELSE discard

\* The loop over root.findall("song"); the element at place k has id base + k.
RECURSIVE ReadElements(_, _, _, _, _)
ReadElements(st, elements, base, years, pattern) ==
    IF elements = <<>> THEN st
    ELSE ReadElements(ReadElement(st, Head(elements), base + 1, years, pattern),
                      Tail(elements), base + 1, years, pattern)

----------------------------------------------------------------------------
(* Parallel plays: one song of each group is kept *)

\* A group's song that is kept when the group holds more than one.
LastOfGroup(group) == group[Len(group)]

Representative(group) == group[1]

\* The first loop: the songs that have no parallel play.
RECURSIVE Unparalleled(_, _)
Unparalleled(songs, pp) ==
    IF songs = <<>> THEN <<>>
    ELSE LET song == Head(songs)
             keep == IF Keyed(song)
                     THEN Len(GroupOf(pp, ParallelKey(song))) <= 1
                     ELSE TRUE
         IN  (IF keep THEN <<song>> ELSE <<>>) \o Unparalleled(Tail(songs), pp)

\* The second loop, over parallel_plays.items(): what it appends to
\* deduplicated_songs.  A dictionary holds a key once, so processed_keys
\* never stops a group.
RECURSIVE Representatives(_)
Representatives(pp) ==
    IF pp = <<>> THEN <<>>
    ELSE (IF Len(Head(pp).group) > 1 THEN <<Representative(Head(pp).group)>>
          ELSE <<>>)
         \o Representatives(Tail(pp))

RECURSIVE ParallelPlayInfo(_)
ParallelPlayInfo(pp) ==
    IF pp = <<>> THEN <<>>
    ELSE (IF Len(Head(pp).group) > 1
          THEN <<[title |-> Head(pp).key[1], date |-> Head(pp).key[2],
                  players |-> [i \in 1..Len(Head(pp).group) |->
                                  Head(pp).group[i].player_name],
                  count |-> Len(Head(pp).group)]>>
          ELSE <<>>)
         \o ParallelPlayInfo(Tail(pp))

\* What a group adds to parallel_play_count.
WholeGroup(group) == Len(group)

DuplicatesRemoved(group) == Len(group) - 1

RECURSIVE ParallelPlayCount(_)
ParallelPlayCount(pp) ==
    IF pp = <<>> THEN 0
    ELSE (IF Len(Head(pp).group) > 1 THEN DuplicatesRemoved(Head(pp).group) ELSE 0)
         + ParallelPlayCount(Tail(pp))

Deduplicated(songs, pp) == Unparalleled(songs, pp) \o Representatives(pp)

----------------------------------------------------------------------------
(* songs.sort(key=lambda x: x["datetime"]): a stable sort *)

\* The place of x among the sorted ones before it: after every song that
\* is not later than x.
PlaceBeforeTies(sorted, x) ==
    Cardinality({i \in 1..Len(sorted) : Earlier(sorted[i].datetime, x.datetime)})

PlaceAfterTies(sorted, x) ==
    Cardinality({i \in 1..Len(sorted) : ~Earlier(x.datetime, sorted[i].datetime)})

InsertAt(seq, k, x) ==
    SubSeq(seq, 1, k) \o <<x>> \o SubSeq(seq, k + 1, Len(seq))

RECURSIVE SortByDatetime(_)
SortByDatetime(seq) ==
    IF seq = <<>> THEN <<>>
    ELSE LET front == SortByDatetime(SubSeq(seq, 1, Len(seq) - 1))
             x == seq[Len(seq)]
         IN  InsertAt(front, PlaceAfterTies(front, x), x)

----------------------------------------------------------------------------
(* Counter and most_common *)

\* A Counter is a dictionary in insertion order: a sequence of [key, count],
\* a key standing where it was first counted.
CountIn(items, key) == Cardinality({i \in 1..Len(items) : items[i] = key})

RECURSIVE FirstOccurrences(_, _)
FirstOccurrences(items, seen) ==
    IF items = <<>> THEN <<>>
    ELSE IF Head(items) \in seen THEN FirstOccurrences(Tail(items), seen)
    ELSE <<Head(items)>> \o FirstOccurrences(Tail(items), seen \cup {Head(items)})

Counter(items) ==
    LET keys == FirstOccurrences(items, {})
    IN  [i \in 1..Len(keys) |-> [key |-> keys[i], count |-> CountIn(items, keys[i])]]

\* The place of an entry among the ranked ones before it: after every entry
\* whose count is not smaller.
RankBeforeTies(ranked, x) ==
    Cardinality({i \in 1..Len(ranked) : ranked[i].count > x.count})

RankAfterTies(ranked, x) ==
    Cardinality({i \in 1..Len(ranked) : ranked[i].count >= x.count})

\* sorted(counter.items(), key=count, reverse=True)
RECURSIVE ByCountDescending(_)
ByCountDescending(counter) ==
    IF counter = <<>> THEN <<>>
    ELSE LET front == ByCountDescending(SubSeq(counter, 1, Len(counter) - 1))
             x == counter[Len(counter)]
         IN  InsertAt(front, RankAfterTies(front, x), x)

\* counter.most_common(n)
most_common(counter, n) ==
    LET ranked == ByCountDescending(counter)
    IN  SubSeq(ranked, 1, IF n < Len(ranked) THEN n ELSE Len(ranked))

\* The length of the top lists when top_count is not given.
DefaultTop == 10

\* top_count or 10
TopLength(top_count) ==
    IF IsNone(top_count) \/ Val(top_count) = 0 THEN DefaultTop ELSE Val(top_count)

----------------------------------------------------------------------------
(* The statistics *)

\* Count albums once per continuous play: the loop with last_album.
RECURSIVE PlayedAlbums(_, _)
PlayedAlbums(songs, last_album) ==
    IF songs = <<>> THEN <<>>
    ELSE LET song == Head(songs)
         IN  IF Truthy(song.album) /\ song.album # last_album
             THEN <<<<song.album, song.artist>>>>
                  \o PlayedAlbums(Tail(songs), song.album)
             ELSE PlayedAlbums(Tail(songs), last_album)

HasAlbum(song) == Truthy(song.album)

HasTitle(song) == Truthy(song.title)

HasArtist(song) == Truthy(song.artist)

\* song["album"] for song in songs if song["album"]
Albums(songs) ==
    LET kept == SelectSeq(songs, HasAlbum)
    IN  [i \in 1..Len(kept) |-> kept[i].album]

\* song["title"] for song in songs if song["title"]
Titles(songs) ==
    LET kept == SelectSeq(songs, HasTitle)
    IN  [i \in 1..Len(kept) |-> kept[i].title]

\* song["artist"] for song in songs if song["artist"]
Artists(songs) ==
    LET kept == SelectSeq(songs, HasArtist)
    IN  [i \in 1..Len(kept) |-> kept[i].artist]

\* (song["title"], song["artist"]) for song in songs if song["title"]
TitlesWithArtist(songs) ==
    LET kept == SelectSeq(songs, HasTitle)
    IN  [i \in 1..Len(kept) |-> <<kept[i].title, kept[i].artist>>]

Range(seq) == {seq[i] : i \in 1..Len(seq)}

RECURSIVE Sum(_)
Sum(ns) == IF ns = <<>> THEN 0 ELSE Head(ns) + Sum(Tail(ns))

\* datetime.weekday(): 0 for Monday
Weekday(dt) == (ToOrdinal(dt) + 6) % 7

Statistics(songs, top_count) ==
    LET durations == [i \in 1..Len(songs) |-> songs[i].duration]
        n == TopLength(top_count)
        album_counts == Counter(PlayedAlbums(songs, None))
        title_counts == Counter(TitlesWithArtist(songs))
        artist_counts == Counter(Artists(songs))
    IN  [total_songs |-> Len(songs),
         unique_albums |-> Cardinality(Range(Albums(songs))),
         unique_titles |-> Cardinality(Range(Titles(songs))),
         unique_artists |-> Cardinality(Range(Artists(songs))),
         album_counts |-> album_counts,
         top_albums |-> most_common(album_counts, n),
         title_counts |-> title_counts,
         top_titles |-> most_common(title_counts, n),
         artist_counts |-> artist_counts,
         top_artists |-> most_common(artist_counts, n),
         sorted_days |-> [d \in 0..6 |->
             Cardinality({i \in 1..Len(songs) : Weekday(songs[i].datetime) = d})],
         min_duration |-> IF durations # <<>>
                          THEN CHOOSE m \in Range(durations) :
                                   \A x \in Range(durations) : m <= x
                          ELSE 0,
         max_duration |-> IF durations # <<>>
                          THEN CHOOSE m \in Range(durations) :
                                   \A x \in Range(durations) : m >= x
                          ELSE 0,
         total_duration |-> Sum(durations)]

----------------------------------------------------------------------------
(* The listening sessions *)

session_gap == 30 * 60

\* datetime + timedelta(seconds): a session's end, written as the day number
\* and the second of the day.
PlusSeconds(dt, seconds) ==
    LET total == SecondOfDay(dt) + seconds
    IN  [ord |-> ToOrdinal(dt) + (total \div 86400), sec |-> total % 86400]

\* Line 274: whether songs[i] starts a new session.
GapFromEndOfPlay(songs, i) ==
    \/ i = 1
    \/ SecondsBetween(songs[i].datetime, songs[i - 1].datetime)
          - songs[i - 1].duration > session_gap

GapReached(songs, i) ==
    \/ i = 1
    \/ SecondsBetween(songs[i].datetime, songs[i - 1].datetime) >= session_gap

StartsSession(songs, i) ==
    \/ i = 1
    \/ SecondsBetween(songs[i].datetime, songs[i - 1].datetime) > session_gap

NoSession == [start |-> None, end |-> None, songs |-> <<>>, duration |-> 0]

\* The loop of lines 273-290 from song i on: [sessions, current_session].
RECURSIVE SessionLoop(_, _, _, _)
SessionLoop(songs, i, sessions, current_session) ==
    IF i > Len(songs)
    THEN [sessions |-> sessions, current_session |-> current_session]
    ELSE LET song == songs[i]
         IN  IF StartsSession(songs, i)
             THEN SessionLoop(songs, i + 1,
                      IF ~IsNone(current_session.start)
                      THEN Append(sessions, current_session)
                      ELSE sessions,
                      [start |-> Some(song.datetime),
                       end |-> Some(PlusSeconds(song.datetime, song.duration)),
                       songs |-> <<song>>,
                       duration |-> song.duration])
             ELSE SessionLoop(songs, i + 1, sessions,
                      [current_session EXCEPT
                          !.songs = Append(@, song),
                          !.end = Some(PlusSeconds(song.datetime, song.duration)),
                          !.duration = @ + song.duration])

\* Lines 292-294: the last session is added.
LastSessionDropped(sessions, current_session) == sessions

AddLastSession(sessions, current_session) ==
    IF ~IsNone(current_session.start)
    THEN Append(sessions, current_session)
    ELSE sessions

Sessions(songs) ==
    LET loop == SessionLoop(songs, 1, <<>>, NoSession)
    IN  AddLastSession(loop.sessions, loop.current_session)

----------------------------------------------------------------------------
(* The log files the runs are checked on *)

\* The most song elements of a log file, per family of inputs.
MaxSongs == 3

MaxAlbumSongs == 4

MaxDurationSongs == 2

MaxFilteredSongs == 2

\* The most files of log_dir.
MaxDocuments == 3

Day == <<"2", "0", "2", "3", "/", "0", "1", "/", "0", "1">>

DayUnpadded == <<"2", "0", "2", "3", "/", "1", "/", "1">>

At(day, clock) == day \o <<" ">> \o clock

Clock0900 == <<"0", "9", ":", "0", "0", ":", "0", "0">>

Clock1000 == <<"1", "0", ":", "0", "0", ":", "0", "0">>

Clock1030 == <<"1", "0", ":", "3", "0", ":", "0", "0">>

Clock103001 == <<"1", "0", ":", "3", "0", ":", "0", "1">>

Clock110001 == <<"1", "1", ":", "0", "0", ":", "0", "1">>

NotADate == <<"2", "0", "2", "3", "-", "0", "1", "-", "0", "1">>

ThreeMinutes == <<"3", ":", "0", "0">>

HalfMinute == <<"0", ":", "3", "0">>

\* Parallel plays and ties: titles, spellings of one moment, a bad date and
\* a bad duration.
ParallelElements ==
    {Element(<<"P">>, <<"X">>, <<"A">>, date, ThreeMinutes, <<>>) :
        date \in {At(Day, Clock1000), At(DayUnpadded, Clock1000), At(Day, Clock0900)}}
    \cup {Element(<<"P">>, <<"X">>, <<"B">>, date, ThreeMinutes, <<>>) :
        date \in {At(Day, Clock1000), At(Day, Clock0900)}}
    \cup {Element(<<"P">>, <<"X">>, <<>>, At(Day, Clock1000), ThreeMinutes, <<>>)}
    \cup {Element(<<"P">>, <<"X">>, <<"A">>, NotADate, ThreeMinutes, <<>>),
          Element(<<"P">>, <<"X">>, <<"A">>, At(Day, Clock1000), <<"0">>, <<>>)}

\* Sessions: gaps of 0, 1, 1800, 1801 and 3601 seconds.
SessionElements ==
    {Element(<<"P">>, <<"X">>, <<>>, At(Day, clock), ThreeMinutes, <<>>) :
        clock \in {Clock1000, Clock1030, Clock103001, Clock110001}}
    \cup {Element(<<"P">>, <<"X">>, <<>>, At(Day, clock), HalfMinute, <<>>) :
        clock \in {Clock1000, Clock103001}}

\* Albums: runs of one album, songs without an album, two artists.
AlbumElements ==
    {Element(<<"P">>, album, <<>>, At(Day, Clock1000), ThreeMinutes, <<>>) :
        album \in {<<>>, <<"X">>, <<"Y">>}}
    \cup {Element(<<"P">>, album, <<>>, At(Day, Clock0900), ThreeMinutes, <<>>) :
        album \in {<<"X">>, <<"Y">>}}
    \cup {Element(<<"Q">>, <<"X">>, <<>>, At(Day, Clock1000), ThreeMinutes, <<>>)}

\* Rankings: artists and titles at two moments.
RankElements ==
    {Element(who[1], <<"X">>, who[2], At(Day, clock), ThreeMinutes, <<>>) :
        who \in {<<<<"P">>, <<"A">>>>, <<<<"Q">>, <<"A">>>>, <<<<"Q">>, <<"B">>>>},
        clock \in {Clock1000, Clock0900}}

\* Durations: missing, "0", no colon, three colons, pieces that are no
\* integer, signed pieces, and well-formed ones.
DurationTexts ==
    {<<>>, <<"0">>, <<"9", "0">>, <<"1", ":", "2", ":", "3", ":", "4">>,
     <<"x", ":", "3", "0">>, <<":", "3", "0">>, <<"1", ":">>,
     <<"1", ":", "x", ":", "3">>, <<"-", "1", ":", "3", "0">>,
     <<"1", ":", "-", "3", "0">>, <<"0", ":", "0", "0">>, <<"1", ":", "3", "0">>,
     <<"1", ":", "0", "2", ":", "0", "3">>, <<"6", "1", ":", "3", "0">>}

DurationElements ==
    {Element(<<"P">>, <<"X">>, <<>>, At(Day, Clock1000), duration, <<>>) :
        duration \in DurationTexts}

\* Eleven artists, albums and titles, one of them played again later: more
\* keys than the ten a top list holds by default.
Letters == <<"a", "b", "c", "d", "e", "f", "g", "h", "i", "j", "k">>

LetterElement(k, clock) ==
    Element(<<Letters[k]>>, <<Letters[k]>>, <<Letters[k]>>, At(Day, clock),
            ThreeMinutes, <<>>)

ManyKeys(twice) ==
    [i \in 1..(Len(Letters) + 1) |->
        IF i <= Len(Letters) THEN LetterElement(i, Clock1000)
        ELSE LetterElement(twice, Clock1030)]

\* Year filters: a range, a single year, and a range written with its last
\* year first.
Years2020To2022 == <<"2", "0", "2", "0", "-", "2", "0", "2", "2">>

Year2023 == <<"2", "0", "2", "3">>

Years2022To2020 == <<"2", "0", "2", "2", "-", "2", "0", "2", "0">>

YearFilters == {Years2020To2022, Year2023, Years2022To2020}

Mid2019 == <<"2", "0", "1", "9", "/", "0", "6", "/", "0", "1", " ",
             "1", "0", ":", "0", "0", ":", "0", "0">>

Start2020 == <<"2", "0", "2", "0", "/", "0", "1", "/", "0", "1", " ",
               "0", "0", ":", "0", "0", ":", "0", "0">>

End2022 == <<"2", "0", "2", "2", "/", "1", "2", "/", "3", "1", " ",
             "2", "3", ":", "5", "9", ":", "5", "9">>

May2023 == <<"2", "0", "2", "3", "/", "0", "5", "/", "0", "1", " ",
             "0", "0", ":", "0", "0", ":", "0", "0">>

\* Records before, at the ends of, and after the years 2020 to 2022, with
\* the title A or B, and one with a bad duration.
FilteredElements ==
    {Element(<<"P">>, <<"X">>, <<"A">>, date, ThreeMinutes, <<>>) :
        date \in {Mid2019, Start2020, May2023}}
    \cup {Element(<<"P">>, <<"X">>, <<"B">>, date, ThreeMinutes, <<>>) :
        date \in {End2022, May2023}}
    \cup {Element(<<"P">>, <<"X">>, <<"A">>, Start2020, <<"0">>, <<>>)}

\* Search patterns: none, and one that the title A alone holds.
SearchPatterns == {None, Some(<<"A">>)}

SeqsUpTo(S, n) == UNION {[1..k -> S] : k \in 0..n}

\* A file of log_dir whose name ends in .xml: whether open() finds it,
\* whether it is well-formed XML, and the song elements written in it.
Document(elements) ==
    [found |-> TRUE, well_formed |-> TRUE, elements |-> elements]

\* A file whose text breaks off after the elements.
Malformed(elements) ==
    [found |-> TRUE, well_formed |-> FALSE, elements |-> elements]

\* A name that os.listdir gives and open() does not find.
Missing == [found |-> FALSE, well_formed |-> FALSE, elements |-> <<>>]

\* ET.parse reads every element whatever the text is.
ParsedWhenFound(file) == file.found

\* ET.parse returns a tree: it raises FileNotFoundError or ParseError
\* otherwise, before any element is looked at.
Parsed(file) == file.found /\ file.well_formed

Input(logs, top_count) ==
    [logs |-> logs, top_count |-> top_count,
     year_filter |-> None, search_pattern |-> None]

\* The element with the name of the player that played it.
Played(e, player) == [e EXCEPT !.player_name = <<player>>]

\* The files of a directory: whole ones that share a title and date, one
\* without the player's name and with a bad duration, one that breaks
\* off after two elements, and one that is not found.
Documents ==
    LET a == Element(<<"P">>, <<"X">>, <<"A">>, At(Day, Clock1000), ThreeMinutes, <<>>)
        b == Element(<<"Q">>, <<"Y">>, <<"B">>, At(Day, Clock0900), ThreeMinutes, <<>>)
        bad == Element(<<"P">>, <<"X">>, <<"A">>, At(Day, Clock1000), <<"0">>, <<>>)
    IN  {Document(<<Played(a, "k")>>), Document(<<b, Played(a, "l")>>),
         Document(<<bad, a>>), Malformed(<<Played(a, "k"), bad>>), Missing}

FilteredInput(logs, year_filter, search_pattern) ==
    [logs |-> logs, top_count |-> None,
     year_filter |-> year_filter, search_pattern |-> search_pattern]

Inputs ==
    {Input(<<>>, None)}
    \cup {Input(files, None) : files \in SeqsUpTo(Documents, MaxDocuments)}
    \cup {FilteredInput(<<Document(es)>>, filter, pattern) :
            es \in SeqsUpTo(FilteredElements, MaxFilteredSongs),
            filter \in YearFilters, pattern \in SearchPatterns}
    \cup {Input(<<Document(es)>>, None) :
            es \in SeqsUpTo(ParallelElements, MaxSongs)
                   \cup SeqsUpTo(SessionElements, MaxSongs)
                   \cup SeqsUpTo(AlbumElements, MaxAlbumSongs)
                   \cup SeqsUpTo(DurationElements, MaxDurationSongs)}
    \cup {Input(<<Document(es)>>, top_count) :
            es \in SeqsUpTo(RankElements, MaxSongs),
            top_count \in {None, Some(1), Some(2)}}
    \cup {Input(<<Document(ManyKeys(twice))>>, top_count) :
            twice \in {1, 6, 11}, top_count \in {None, Some(2)}}

----------------------------------------------------------------------------
(* analyze_music_logs *)

VARIABLES
    logs,                \* the .xml files of log_dir, as os.listdir gives them
    year_filter, search_pattern, top_count,
    pc,                  \* where the run is
    file_index,          \* the file the loop over the files is at
    songs, discarded_count, parallel_plays,
    parallel_play_count, parallel_play_info,
    stats,               \* the statistics of lines 212-265
    sessions,
    output,              \* None, or what the report says
    raised               \* the exception that ends the run, "" for none

vars == <<logs, year_filter, search_pattern, top_count, pc, file_index, songs,
          discarded_count, parallel_plays, parallel_play_count,
          parallel_play_info, stats, sessions, output, raised>>

inputs == <<logs, year_filter, search_pattern, top_count>>

Init ==
    /\ \E input \in Inputs :
          /\ logs = input.logs
          /\ top_count = input.top_count
          /\ year_filter = input.year_filter
          /\ search_pattern = input.search_pattern
    /\ pc = "files"
    /\ file_index = 1
    /\ songs = <<>>
    /\ discarded_count = 0
    /\ parallel_plays = <<>>
    /\ parallel_play_count = 0
    /\ parallel_play_info = <<>>
    /\ stats = None
    /\ sessions = <<>>
    /\ output = None
    /\ raised = ""

\* The song elements of the well-formed files before file k.
RECURSIVE ElementsBefore(_, _)
ElementsBefore(files, k) ==
    IF k <= 1 THEN 0
    ELSE ElementsBefore(files, k - 1)
         + (IF Parsed(files[k - 1]) THEN Len(files[k - 1].elements) ELSE 0)

\* Lines 106-164: one file of the directory.  ET.parse reads the whole file
\* before any element is looked at; a file that is not well-formed raises
\* ParseError and one that is not found FileNotFoundError: the error is
\* printed, and the loop goes on.
ProcessFile ==
    /\ pc = "files"
    /\ file_index <= Len(logs)
    /\ LET file == logs[file_index]
           st == IF Parsed(file)
                 THEN ReadElements([songs |-> songs,
                                    parallel_plays |-> parallel_plays,
                                    discarded_count |-> discarded_count],
                                   file.elements,
                                   ElementsBefore(logs, file_index),
                                   parse_year_filter(year_filter),
                                   search_pattern)
                 ELSE [songs |-> songs, parallel_plays |-> parallel_plays,
                       discarded_count |-> discarded_count]
       IN  /\ songs' = st.songs
           /\ parallel_plays' = st.parallel_plays
           /\ discarded_count' = st.discarded_count
    /\ file_index' = file_index + 1
    /\ UNCHANGED <<inputs, pc, parallel_play_count, parallel_play_info, stats,
                   sessions, output, raised>>

\* Line 166: if not songs
ReturnsNever(accepted) == FALSE

ReturnsEarly(accepted) == accepted = <<>>

\* Lines 166-168: "No song data found." is printed and the run returns.
NoSongData ==
    /\ pc = "files"
    /\ file_index > Len(logs)
    /\ ReturnsEarly(songs)
    /\ pc' = "done"
    /\ UNCHANGED <<inputs, file_index, songs, discarded_count, parallel_plays,
                   parallel_play_count, parallel_play_info, stats, sessions,
                   output, raised>>

\* Lines 170-206: songs becomes the deduplicated list.
Deduplicate ==
    /\ pc = "files"
    /\ file_index > Len(logs)
    /\ ~ReturnsEarly(songs)
    /\ songs' = Deduplicated(songs, parallel_plays)
    /\ parallel_play_info' = ParallelPlayInfo(parallel_plays)
    /\ parallel_play_count' = parallel_play_count + ParallelPlayCount(parallel_plays)
    /\ pc' = "sort"
    /\ UNCHANGED <<inputs, file_index, discarded_count, parallel_plays, stats,
                   sessions, output, raised>>

\* Line 209
Sort ==
    /\ pc = "sort"
    /\ songs' = SortByDatetime(songs)
    /\ pc' = "statistics"
    /\ UNCHANGED <<inputs, file_index, discarded_count, parallel_plays,
                   parallel_play_count, parallel_play_info, stats, sessions,
                   output, raised>>

\* Lines 211-265
ComputeStatistics ==
    /\ pc = "statistics"
    /\ stats' = Some(Statistics(songs, top_count))
    /\ pc' = "sessions"
    /\ UNCHANGED <<inputs, file_index, songs, discarded_count, parallel_plays,
                   parallel_play_count, parallel_play_info, sessions, output,
                   raised>>

\* Lines 267-294
FindSessions ==
    /\ pc = "sessions"
    /\ sessions' = Sessions(songs)
    /\ pc' = "output"
    /\ UNCHANGED <<inputs, file_index, songs, discarded_count, parallel_plays,
                   parallel_play_count, parallel_play_info, stats, output,
                   raised>>

\* The parallel plays the report gives as examples (line 399).
MaxExamples == 5

\* ", ".join(info["players"]) of an example raises TypeError when a player
\* name is None.
JoinRaises(info) ==
    \E i \in 1..Len(info) :
        /\ i <= MaxExamples
        /\ \E p \in 1..Len(info[i].players) : IsNone(info[i].players[p])

\* What the report leaves: the exception it raises, "" for none, and what
\* it prints.  The loop over the seven days of the week divides by
\* total_songs (line 352) whatever the songs are.
Reported(stat, session_list, info, count, discarded) ==
    IF stat.total_songs = 0
    THEN [raised |-> "ZeroDivisionError", output |-> None]
    ELSE IF JoinRaises(info)
    THEN [raised |-> "TypeError", output |-> None]
    ELSE [raised |-> "",
          output |-> Some([statistics |-> stat,
                           session_count |-> Len(session_list),
                           parallel_plays_detected |-> Len(info),
                           duplicates_excluded |-> count,
                           discarded_songs |-> discarded])]

\* Lines 296-464: the report.
Report ==
    /\ pc = "output"
    /\ LET reported == Reported(Val(stats), sessions, parallel_play_info,
                                parallel_play_count, discarded_count)
       IN  /\ raised' = reported.raised
           /\ output' = reported.output
    /\ pc' = "done"
    /\ UNCHANGED <<inputs, file_index, songs, discarded_count, parallel_plays,
                   parallel_play_count, parallel_play_info, stats, sessions>>

Next ==
    \/ ProcessFile
    \/ NoSongData
    \/ Deduplicate
    \/ Sort
    \/ ComputeStatistics
    \/ FindSessions
    \/ Report

Spec == Init /\ [][Next]_vars

----------------------------------------------------------------------------
(* What the claims speak of *)

Ids(list) == {list[i].id : i \in 1..Len(list)}

\* The song elements read from the files before file_index, by id.
ElementsRead == 1..ElementsBefore(logs, file_index)

RECURSIVE ElementAt(_, _)
ElementAt(files, id) ==
    IF ~Parsed(Head(files)) THEN ElementAt(Tail(files), id)
    ELSE IF id <= Len(Head(files).elements) THEN Head(files).elements[id]
    ELSE ElementAt(Tail(files), id - Len(Head(files).elements))

Sorted == pc \in {"statistics", "sessions", "output", "done"}

Segmented == pc \in {"output", "done"}

\* The places of a list whose song has the key.
WithKey(list, key) ==
    {i \in 1..Len(list) : Keyed(list[i]) /\ ParallelKey(list[i]) = key}

KeysOf(list) == {ParallelKey(list[i]) : i \in {j \in 1..Len(list) : Keyed(list[j])}}

Least(S) == CHOOSE m \in S : \A x \in S : m <= x

\* C1: in the step that removes the parallel plays, a key (title, raw date
\* string) that n >= 2 accepted songs share is left with exactly one song,
\* the first of them in input order; a key of one song keeps that song; and
\* parallel_play_count grows by n - 1 for each shared key and by nothing
\* for the others.
C1_OneRepresentativePerGroup ==
    [][(pc = "files" /\ pc' = "sort") =>
        /\ \A key \in KeysOf(songs) :
              LET members == WithKey(songs, key)
                  kept == WithKey(songs', key)
              IN  /\ Cardinality(kept) = 1
                  /\ \A j \in kept : songs'[j] = songs[Least(members)]
        /\ parallel_play_count' - parallel_play_count
              = Cardinality({i \in 1..Len(songs) : Keyed(songs[i])})
                - Cardinality(KeysOf(songs))
        /\ Ids(songs') \subseteq Ids(songs)
        /\ Len(songs') = Cardinality(Ids(songs'))
      ]_vars

\* A group of two and a key of one song have been through the step: one
\* duplicate is excluded, two songs are left.
C1_Witness ==
    /\ pc = "sort"
    /\ parallel_play_count = 1
    /\ \E i \in 1..Len(parallel_plays) : Len(parallel_plays[i].group) = 2
    /\ \E i \in 1..Len(parallel_plays) : Len(parallel_plays[i].group) = 1
    /\ Len(songs) = 2

RECURSIVE Flattened(_)
Flattened(list) ==
    IF list = <<>> THEN <<>> ELSE Head(list).songs \o Flattened(Tail(list))

\* The place in songs of the first song of session k.
FirstPlace(k) == 1 + Len(Flattened(SubSeq(sessions, 1, k - 1)))

Gap(list, i) == SecondsBetween(list[i].datetime, list[i - 1].datetime)

\* C2: once the sessions are built, a session starts at song i > 1 exactly
\* when song i starts more than 1800 seconds after song i - 1 starts:
\* neighbours inside a session are at most 1800 seconds apart, and the first
\* song of a later session is more than 1800 seconds after the last song of
\* the session before it.
C2_BoundaryIffGapOver1800 ==
    Segmented =>
        /\ \A i \in 2..Len(songs) :
              (\E k \in 2..Len(sessions) : FirstPlace(k) = i) <=> Gap(songs, i) > 1800
        /\ \A k \in 1..Len(sessions) :
              \A i \in 2..Len(sessions[k].songs) : Gap(sessions[k].songs, i) <= 1800
        /\ \A k \in 2..Len(sessions) :
              SecondsBetween(sessions[k].songs[1].datetime,
                             sessions[k - 1].songs[Len(sessions[k - 1].songs)].datetime)
                  > 1800

\* Two songs exactly 1800 seconds apart share a session, and the next song,
\* 1801 seconds later, starts the second session.
C2_Witness ==
    /\ pc = "done"
    /\ Len(sessions) = 2
    /\ Len(sessions[1].songs) = 2
    /\ Gap(sessions[1].songs, 2) = 1800
    /\ Gap(songs, 3) = 1801

\* C3: the sessions are a partition of the sorted songs: none is empty,
\* their song lists in order make up the songs again, and the session that
\* is open at the end of the songs is among them.
C3_SessionsPartitionSongs ==
    Segmented =>
        /\ \A k \in 1..Len(sessions) : sessions[k].songs # <<>>
        /\ Flattened(sessions) = songs
        /\ songs # <<>> =>
              /\ sessions # <<>>
              /\ LET last == sessions[Len(sessions)].songs
                 IN  last[Len(last)] = songs[Len(songs)]

\* The last of two sessions holds one song, the last of three songs.
C3_Witness ==
    /\ pc = "done"
    /\ Len(sessions) = 2
    /\ sessions[2].songs = <<songs[Len(songs)]>>
    /\ Len(songs) = 3

\* C10: the sessions of the songs of the sessions are the sessions again,
\* with their songs, start, end and duration.
C10_SegmentationIdempotent ==
    Segmented => Sessions(Flattened(sessions)) = sessions

\* Three songs in two sessions, one of two songs, have been segmented.
C10_Witness ==
    /\ pc = "done"
    /\ Len(sessions) = 2
    /\ Len(sessions[2].songs) = 2
    /\ sessions[2].duration = 210
    /\ Len(Flattened(sessions)) = 3

\* Whether the song is the one kept of a parallel group.
IsRepresentative(song) ==
    Keyed(song) /\ Len(GroupOf(parallel_plays, ParallelKey(song))) > 1

SameMoment(a, b) == ~Earlier(a.datetime, b.datetime) /\ ~Earlier(b.datetime, a.datetime)

Ascending ==
    \A i \in 1..Len(songs) : \A j \in (i + 1)..Len(songs) :
        ~Earlier(songs[j].datetime, songs[i].datetime)

\* C4 as it is claimed: the sorted songs ascend in time, and songs of one
\* moment stand as they stood in the input.
C4_TiesInInputOrder ==
    Sorted =>
        /\ Ascending
        /\ \A i \in 1..Len(songs) : \A j \in (i + 1)..Len(songs) :
              SameMoment(songs[i], songs[j]) => songs[i].id < songs[j].id

\* C4: the sorted songs ascend in time; among songs of one moment the ones
\* that are in no parallel group stand first, in input order, and the
\* representatives of the parallel groups after them, in input order.
C4_TiesInDeduplicatedOrder ==
    Sorted =>
        /\ Ascending
        /\ \A i \in 1..Len(songs) : \A j \in (i + 1)..Len(songs) :
              SameMoment(songs[i], songs[j]) =>
                  \/ ~IsRepresentative(songs[i]) /\ IsRepresentative(songs[j])
                  \/ /\ IsRepresentative(songs[i]) = IsRepresentative(songs[j])
                     /\ songs[i].id < songs[j].id

\* A representative stands after a song of the same moment that was read
\* after it, and an earlier song stands before both.
C4_Witness ==
    /\ pc = "statistics"
    /\ \E i \in 1..Len(songs) : \E j \in (i + 1)..Len(songs) :
          /\ SameMoment(songs[i], songs[j])
          /\ IsRepresentative(songs[j])
          /\ ~IsRepresentative(songs[i])
          /\ songs[i].id > songs[j].id

\* C5 as it is claimed: a run that accepts no song ends with a statistics
\* result whose counts are all zero, and with no error.
C5_EmptyInputGivesZeroCounts ==
    (pc = "done" /\ songs = <<>>) =>
        /\ raised = ""
        /\ ~IsNone(output)
        /\ Val(output).statistics.total_songs = 0
        /\ Val(output).statistics.unique_albums = 0
        /\ Val(output).statistics.unique_titles = 0
        /\ Val(output).statistics.unique_artists = 0
        /\ Val(output).session_count = 0
        /\ Val(output).duplicates_excluded = 0

\* C5: a run that accepts no song (no file, or files whose songs are all
\* discarded) returns after "No song data found.": no statistics, no
\* sessions and no report are made, and no division by zero or other error
\* is raised.
C5_EmptyInputGivesNoResult ==
    (pc = "done" /\ songs = <<>>) =>
        /\ raised = ""
        /\ IsNone(output)
        /\ IsNone(stats)
        /\ sessions = <<>>
        /\ parallel_play_count = 0
        /\ parallel_play_info = <<>>

\* A run over a file whose two songs are both discarded has ended.
C5_Witness ==
    /\ pc = "done"
    /\ songs = <<>>
    /\ Len(logs) = 1
    /\ Len(logs[1].elements) = 2
    /\ discarded_count = 2

\* Text that is no integer: empty, or something other than digits after an
\* optional sign.
NotInteger(piece) ==
    LET body == IF Len(piece) > 0 /\ piece[1] \in {"-", "+"} THEN Tail(piece)
                ELSE piece
    IN  Len(body) = 0 \/ \E i \in 1..Len(body) : body[i] \notin Digits

BadDuration(text) ==
    \/ text = <<>>
    \/ text = <<"0">>
    \/ Count(text, ":") \notin {1, 2}
    \/ \E i \in 1..Len(Split(text, ":")) : NotInteger(Split(text, ":")[i])

SongsInGroups ==
    UNION {Ids(parallel_plays[i].group) : i \in 1..Len(parallel_plays)}

\* C6: a song element that was read and whose duration is missing, "0",
\* has other than one or two colons or has a piece that is no integer has
\* no parsed duration and is in no list of songs, no parallel group and no
\* session; and while the files are read, discarded_count is the number of
\* the elements read that are not among the songs, one for each of them.
C6_BadDurationIsDiscarded ==
    LET bad == {id \in ElementsRead : BadDuration(ElementAt(logs, id).duration)}
    IN  /\ \A id \in bad :
              /\ IsNone(parse_duration(ElementAt(logs, id).duration))
              /\ id \notin Ids(songs) \cup SongsInGroups \cup Ids(Flattened(sessions))
        /\ discarded_count >= Cardinality(bad)
        /\ pc = "files" =>
              discarded_count = Cardinality(ElementsRead) - Len(songs)

\* A file with a duration of no colon and one of a piece that is no
\* integer has been read: both are discarded.
C6_Witness ==
    /\ pc = "files"
    /\ file_index = 2
    /\ discarded_count = 2
    /\ songs = <<>>
    /\ logs[1].elements[1].duration = <<"9", "0">>
    /\ logs[1].elements[2].duration = <<"x", ":", "3", "0">>

\* m:ss or h:mm:ss, every piece digits only.
PlainDuration(text) ==
    /\ Count(text, ":") \in {1, 2}
    /\ \A i \in 1..Len(Split(text, ":")) : AllDigits(Split(text, ":")[i])

\* C7: every song has a duration text of the form m:ss or h:mm:ss with
\* pieces of digits only, and so every duration of a song, every session's
\* duration and the total listening time are >= 0.
C7_DurationsNonNegative ==
    /\ \A i \in 1..Len(songs) :
          /\ PlainDuration(ElementAt(logs, songs[i].id).duration)
          /\ songs[i].duration >= 0
    /\ \A k \in 1..Len(sessions) : sessions[k].duration >= 0
    /\ ~IsNone(stats) => Val(stats).total_duration >= 0

CountOf(counter, key) ==
    IF \E i \in 1..Len(counter) : counter[i].key = key
    THEN counter[CHOOSE i \in 1..Len(counter) : counter[i].key = key].count
    ELSE 0

AlbumKey(song) == <<song.album, song.artist>>

\* The songs with an album that are first or whose album is not the album
\* of the song right before them.
AlbumChangesAt(i) ==
    /\ HasAlbum(songs[i])
    /\ (i = 1 \/ songs[i].album # songs[i - 1].album)

\* C8: the count of an (album, artist) key in the album ranking is the
\* number of the songs with that key that are first or whose album differs
\* from the album of the song right before them.
C8_AlbumCountedWhenAlbumChanges ==
    ~IsNone(stats) =>
        \A i \in 1..Len(songs) :
            HasAlbum(songs[i]) =>
                CountOf(Val(stats).album_counts, AlbumKey(songs[i]))
                    = Cardinality({j \in 1..Len(songs) :
                          AlbumChangesAt(j) /\ AlbumKey(songs[j]) = AlbumKey(songs[i])})

\* What the claim counts for the three rankings: the artist of every song
\* that has one, the (title, artist) of every song that has a title, and
\* the (album, artist) of every song at which a run of its album starts, a
\* song without an album neither ending nor starting a run.
ArtistPlaces == {i \in 1..Len(songs) : HasArtist(songs[i])}

TitlePlaces == {i \in 1..Len(songs) : HasTitle(songs[i])}

AlbumPlaces == {i \in 1..Len(songs) : HasAlbum(songs[i])}

AlbumRunStartsAt(i) ==
    /\ HasAlbum(songs[i])
    /\ LET before == {j \in 1..(i - 1) : HasAlbum(songs[j])}
       IN  before = {} \/ songs[CHOOSE j \in before : \A x \in before : x <= j].album
                             # songs[i].album

AlbumRunPlaces == {i \in 1..Len(songs) : AlbumRunStartsAt(i)}

ArtistKeys == [i \in 1..Len(songs) |-> songs[i].artist]

TitleKeys == [i \in 1..Len(songs) |-> <<songs[i].title, songs[i].artist>>]

AlbumKeys == [i \in 1..Len(songs) |-> <<songs[i].album, songs[i].artist>>]

\* The length the claim gives the lists.
ClaimedLength == IF IsNone(top_count) THEN 10 ELSE Val(top_count)

\* top is the ranking of the keys of the places counted: every key once,
\* with the number of its counted places, more counts first, equal counts
\* in the order of the keys' first places among first, cut to ClaimedLength.
IsRanking(top, keyAt, counted, first) ==
    LET keys == {keyAt[i] : i \in counted}
        Number(key) == Cardinality({i \in counted : keyAt[i] = key})
        FirstPlaceOf(key) == Least({i \in first : keyAt[i] = key})
        Before(a, b) ==
            \/ Number(a) > Number(b)
            \/ Number(a) = Number(b) /\ FirstPlaceOf(a) < FirstPlaceOf(b)
        listed == {top[i].key : i \in 1..Len(top)}
    IN  /\ Len(top) = (IF ClaimedLength < Cardinality(keys) THEN ClaimedLength
                       ELSE Cardinality(keys))
        /\ Cardinality(listed) = Len(top)
        /\ listed \subseteq keys
        /\ \A i \in 1..Len(top) : top[i].count = Number(top[i].key)
        /\ \A i \in 1..Len(top) : \A j \in (i + 1)..Len(top) :
              Before(top[i].key, top[j].key)
        /\ \A key \in keys \ listed : \A i \in 1..Len(top) : Before(top[i].key, key)

\* C9 as it is claimed: each top list holds its keys by descending count,
\* keys of equal count by their first occurrence in the sorted songs, cut
\* to top_count entries, or to 10.
C9_TiesByFirstOccurrence ==
    ~IsNone(stats) =>
        /\ IsRanking(Val(stats).top_artists, ArtistKeys, ArtistPlaces, ArtistPlaces)
        /\ IsRanking(Val(stats).top_titles, TitleKeys, TitlePlaces, TitlePlaces)
        /\ IsRanking(Val(stats).top_albums, AlbumKeys, AlbumRunPlaces, AlbumPlaces)

\* C9: each top list holds its keys by descending count, keys of equal
\* count by the first song that was counted for them (for an album key the
\* first song that starts a counted run of the album), cut to top_count
\* entries, or to 10.
C9_TiesByFirstCounted ==
    ~IsNone(stats) =>
        /\ IsRanking(Val(stats).top_artists, ArtistKeys, ArtistPlaces, ArtistPlaces)
        /\ IsRanking(Val(stats).top_titles, TitleKeys, TitlePlaces, TitlePlaces)
        /\ IsRanking(Val(stats).top_albums, AlbumKeys, AlbumRunPlaces, AlbumRunPlaces)

\* Eleven artists and no top_count: the list holds ten of them, the artist
\* played twice first, then the others as they first occur.
C9_Witness ==
    /\ pc = "done"
    /\ ~IsNone(stats)
    /\ IsNone(top_count)
    /\ Len(Val(stats).artist_counts) = 11
    /\ Len(Val(stats).top_artists) = 10
    /\ Val(stats).top_artists[1] = [key |-> <<"k">>, count |-> 2]
    /\ Val(stats).top_artists[2].key = <<"a">>

----------------------------------------------------------------------------
(* The year filter *)

\* The filter is written as a year of four digits, or as two of them with
\* a hyphen between.
FilterActive ==
    \/ Len(year_filter) = 4 /\ AllDigits(year_filter)
    \/ /\ Len(year_filter) = 9
       /\ AllDigits(SubSeq(year_filter, 1, 4))
       /\ year_filter[5] = "-"
       /\ AllDigits(SubSeq(year_filter, 6, 9))

FilterFirst == DecimalValue(SubSeq(year_filter, 1, 4))

FilterLast ==
    IF Len(year_filter) = 9 THEN DecimalValue(SubSeq(year_filter, 6, 9))
    ELSE FilterFirst

\* The years from the first to the last, both among them: none when the
\* range is written with its last year first.
FilterMember(year) == FilterFirst <= year /\ year <= FilterLast

ValidRecord(e) ==
    ~IsNone(parse_duration(e.duration)) /\ ~IsNone(strptime(e.date))

YearOf(e) == Val(strptime(e.date)).year

\* Whether the search pattern lets the record through.
PatternLets(e) ==
    SearchMatches(MakeSong(e, 0, Val(parse_duration(e.duration)),
                           Val(strptime(e.date))), search_pattern)

InGroups(pp, id) ==
    \E g \in 1..Len(pp) : \E i \in 1..Len(pp[g].group) : pp[g].group[i].id = id

\* C11: under a year filter, a record with a valid duration and date whose
\* year is not a year of the filter is kept out of the songs and out of the
\* parallel groups, whatever the search pattern is, and every record of the
\* file that is kept out adds one to discarded_count; a record of the first
\* or of the last year of the filter (these years are members unless the
\* range is written with its last year first, when it has no member) is
\* accepted whenever the search pattern lets it.
C11_YearFilterDiscardsOtherYears ==
    [][(pc = "files" /\ file_index' = file_index + 1 /\ FilterActive
        /\ Parsed(logs[file_index]))
       => LET elements == logs[file_index].elements
              base == ElementsBefore(logs, file_index)
              places == 1..Len(elements)
          IN  /\ \A i \in places :
                     (ValidRecord(elements[i])
                      /\ ~FilterMember(YearOf(elements[i])))
                     => /\ base + i \notin Ids(songs')
                        /\ ~InGroups(parallel_plays', base + i)
              /\ discarded_count' - discarded_count
                    = Cardinality({i \in places : base + i \notin Ids(songs')})
              /\ \A i \in places :
                     (ValidRecord(elements[i])
                      /\ YearOf(elements[i]) \in {FilterFirst, FilterLast}
                      /\ FilterMember(YearOf(elements[i]))
                      /\ PatternLets(elements[i]))
                     => base + i \in Ids(songs')]_vars

\* A range and a search pattern: a record of 2023 that the pattern lets
\* through is discarded, one of the range's first year is accepted.
C11_Witness ==
    /\ pc = "files" /\ file_index > Len(logs) /\ Len(logs) = 1
    /\ year_filter = Years2020To2022
    /\ ~IsNone(search_pattern)
    /\ discarded_count = 1
    /\ \E i \in 1..Len(logs[1].elements) :
          /\ ValidRecord(logs[1].elements[i])
          /\ YearOf(logs[1].elements[i]) = 2023
          /\ PatternLets(logs[1].elements[i])
          /\ i \notin Ids(songs)
    /\ \E i \in 1..Len(songs) : songs[i].datetime.year = FilterFirst

----------------------------------------------------------------------------
(* Files that are not found or not well-formed *)

Readable(file) == file.found /\ file.well_formed

\* The files with the unreadable ones taken out.
Removed(files) == SelectSeq(files, Readable)

NothingRead == [songs |-> <<>>, parallel_plays |-> <<>>, discarded_count |-> 0]

\* The loop over the files, when every file is read.
RECURSIVE ReadDocuments(_, _, _)
ReadDocuments(files, st, base) ==
    IF files = <<>> THEN st
    ELSE ReadDocuments(Tail(files),
                       ReadElements(st, Head(files).elements, base,
                                    parse_year_filter(year_filter),
                                    search_pattern),
                       base + Len(Head(files).elements))

\* What a run on the files leaves when it has returned.
RunOn(files) ==
    LET st == ReadDocuments(files, NothingRead, 0)
    IN  IF st.songs = <<>>
        THEN [songs |-> <<>>, parallel_plays |-> st.parallel_plays,
              discarded_count |-> st.discarded_count,
              parallel_play_count |-> 0, parallel_play_info |-> <<>>,
              stats |-> None, sessions |-> <<>>, output |-> None,
              raised |-> ""]
        ELSE LET sorted == SortByDatetime(Deduplicated(st.songs, st.parallel_plays))
                 info == ParallelPlayInfo(st.parallel_plays)
                 count == ParallelPlayCount(st.parallel_plays)
                 found == Sessions(sorted)
                 stat == Statistics(sorted, top_count)
                 reported == Reported(stat, found, info, count, st.discarded_count)
             IN  [songs |-> sorted, parallel_plays |-> st.parallel_plays,
                  discarded_count |-> st.discarded_count,
                  parallel_play_count |-> count, parallel_play_info |-> info,
                  stats |-> Some(stat), sessions |-> found,
                  output |-> reported.output, raised |-> reported.raised]

\* C12: a file that is not found or not well-formed gives no record and
\* leaves songs, parallel_plays and discarded_count as they were, and the
\* loop goes on: while the files are read the three are what reading the
\* readable files so far gives, and when the run has returned everything
\* it leaves is what the run on the files without the unreadable ones
\* leaves.
C12_UnreadableFileIsAsIfRemoved ==
    /\ pc = "files"
          => [songs |-> songs, parallel_plays |-> parallel_plays,
              discarded_count |-> discarded_count]
             = ReadDocuments(Removed(SubSeq(logs, 1, file_index - 1)),
                             NothingRead, 0)
    /\ pc = "done"
          => [songs |-> songs, parallel_plays |-> parallel_plays,
              discarded_count |-> discarded_count,
              parallel_play_count |-> parallel_play_count,
              parallel_play_info |-> parallel_play_info,
              stats |-> stats, sessions |-> sessions, output |-> output,
              raised |-> raised]
             = RunOn(Removed(logs))

\* A file that breaks off after two elements and one that is not found,
\* each before a whole file whose records are reported.
C12_Witness ==
    /\ pc = "done"
    /\ ~IsNone(output)
    /\ \E i, j, k \in 1..Len(logs) :
          /\ i < k /\ j < k
          /\ logs[i].found /\ ~logs[i].well_formed /\ logs[i].elements # <<>>
          /\ ~logs[j].found
          /\ Readable(logs[k]) /\ Len(logs[k].elements) = Len(songs)

----------------------------------------------------------------------------
(* Every song element is counted once *)

YearPasses(e) ==
    LET years == parse_year_filter(year_filter)
    IN  IsNone(years) \/ YearOf(e) \in Val(years)

\* The element fails one of the tests of the loop over the elements.
Rejected(e) == ~ValidRecord(e) \/ ~YearPasses(e) \/ ~PatternLets(e)

Retained == Ids(songs)

ExcludedAsDuplicate == SongsInGroups \ Ids(songs)

Discarded == ElementsRead \ (Ids(songs) \cup SongsInGroups)

\* C13: once the songs are deduplicated and sorted, the song elements read
\* from the parsed files are as many as total_songs, parallel_play_count
\* and discarded_count together: the retained songs, the duplicates taken
\* out of the parallel groups and the discarded elements are total_songs,
\* parallel_play_count and discarded_count many, no element is in two of
\* the three, and the discarded ones are the elements that fail a test of
\* the loop, none of them in a parallel group.
C13_RecordConservation ==
    Sorted
    => /\ Cardinality(ElementsRead)
            = Len(songs) + parallel_play_count + discarded_count
       /\ ~IsNone(stats) => Val(stats).total_songs = Len(songs)
       /\ Retained \cup SongsInGroups \subseteq ElementsRead
       /\ Cardinality(Retained) = Len(songs)
       /\ Cardinality(ExcludedAsDuplicate) = parallel_play_count
       /\ Cardinality(Discarded) = discarded_count
       /\ \A id \in ElementsRead :
             Rejected(ElementAt(logs, id))
             <=> (id \notin Retained /\ id \notin SongsInGroups)

\* Three files with five elements: two songs are retained, two are taken
\* out as duplicates and one element is discarded.
C13_Witness ==
    /\ ~IsNone(stats)
    /\ Len(logs) = 3
    /\ Cardinality(ElementsRead) = 5
    /\ Val(stats).total_songs = 2
    /\ parallel_play_count = 2
    /\ discarded_count = 1

====
